---- MODULE Spec2Model ----
(***************************************************************************)
(* Model of the class scheduler's optimisation core:                       *)
(*   - ScheduleEngine (src/src/utils/scheduleEngine.ts): scoring, the      *)
(*     randomized initial-solution builder, the relocating mutator and     *)
(*     the annealing loop of generateSchedule;                             *)
(*   - SimulatedAnnealing.optimize (src/src/utils/simulatedAnnealing.ts):  *)
(*     the configurable annealing loop with its own builder and mutator.   *)
(* Dates are day offsets from the start date (0 = startDate); a slot is a  *)
(* pair <<date, period>>.  Scores are exact rationals <<num, den>>.        *)
(* Math.random() is a nondeterministic choice over every outcome it can    *)
(* produce.                                                                *)
(***************************************************************************)
EXTENDS Integers, Sequences, FiniteSets, TLC

\* ------------------------------------------------------------------ bounds
\* length of the search window; getDateRange(startDate, 14) scaled down
NumDays == 2
\* scheduleEngine.ts:22 (10000) scaled down
MAX_ITERATIONS == 3
\* scheduleEngine.ts:394 (1000) scaled down
maxIterationsWithoutImprovement == 2

\* largest maxIterations configured for SimulatedAnnealing.optimize
MaxConfigIterations == 3
\* largest iterationsPerTemp configured for SimulatedAnnealing.optimize
MaxIterationsPerTemp == 2

\* ------------------------------------------------------- program constants
\* scheduleEngine.ts:91: cohesion is normalised by a 14 day window
CohesionWindowDays == 14
\* simulatedAnnealing.ts:89: the builder of optimize tries periods 1..8
AvailablePeriodCount == 8
\* simulatedAnnealing.ts:97: the builder of optimize tries 5 days
InitialDayTries == 5

Dates == 0..(NumDays - 1)
Refs == 1..3
\* -Infinity, as a rational with denominator 0
NegInfinity == <<-1, 0>>

VARIABLES
    run,              \* which annealing loop is executing
    preferences,      \* the preferences argument of the constructor
    classes,          \* this.classes: the catalogue, id -> Class
    constraints,      \* this.constraints
    blackoutPeriods,  \* the blackoutPeriods argument of the constructor
    config,           \* SimulatedAnnealingConfig (SimulatedAnnealing only)
    pc,               \* position: "start", "loop", "workers", "done", "threw", "raised"
    heap,             \* the live Schedule objects, reference -> object
    currentSchedule,  \* reference held by currentSchedule / currentSolution
    bestSchedule,     \* reference held by bestSchedule / bestSolution
    newSchedule,      \* reference returned by the last mutateSchedule call
    bestScore,        \* generateSchedule's bestScore
    iterations,       \* iterations / iteration
    lastImprovement,  \* generateSchedule's lastImprovement
    temperature,      \* optimize's temperature
    maxSeen,          \* history: highest aggregate of initial and current schedules
    workerCountArg,   \* the workerCount argument of ParallelScheduler
    workerCount,      \* ParallelScheduler's this.workerCount
    workerIndex,      \* i of ParallelScheduler.generateSchedule's for loop
    workers,          \* length of ParallelScheduler's this.workers
    runResults,       \* history: score and schedule of each run that returned
    weekArg,          \* maxPeriodsPerWeek handed to validateMaxPeriodsPerWeek
    dayArg,           \* maxPeriodsPerDay handed to it: <<>> when omitted, else <<d>>
    verdict,          \* what validateMaxPeriodsPerWeek returned, "none" before
    periodArg,        \* period handed to countConsecutivePeriods
    dateArg,          \* date handed to countConsecutivePeriods
    consecutiveCount, \* what countConsecutivePeriods returned, 0 before
    formTotalConflicts,   \* ClassForm's totalConflicts: day -> periods
    formPartialConflicts, \* ClassForm's partialConflicts: day -> periods
    toggles,          \* history: number of toggle operations on the form
    isGenerating,     \* ScheduleGenerator's isGenerating
    error,            \* ScheduleGenerator's error, "null" when none
    generatedSchedule, \* ScheduleGenerator's generatedSchedule, <<>> when undefined
    clicks            \* history: number of clicks on Generate Schedule

parVars == <<workerCountArg, workerCount, workerIndex, workers, runResults>>
valVars == <<weekArg, dayArg, verdict>>
uiVars == <<periodArg, dateArg, consecutiveCount, formTotalConflicts,
            formPartialConflicts, toggles, isGenerating, error,
            generatedSchedule, clicks>>

vars == <<parVars, valVars, uiVars, run, preferences, classes, constraints, blackoutPeriods, config, pc, heap,
          currentSchedule, bestSchedule, newSchedule, bestScore, iterations,
          lastImprovement, temperature, maxSeen>>

\* ---------------------------------------------------------------- rationals
RECURSIVE GCD(_, _)
GCD(a, b) == IF b = 0 THEN a ELSE GCD(b, a % b)

Abs(x) == IF x < 0 THEN -x ELSE x

Norm(q) ==
    LET g == GCD(Abs(q[1]), q[2])
    IN  IF q[1] = 0 THEN <<0, 1>> ELSE <<q[1] \div g, q[2] \div g>>

Rat(n, d) == Norm(<<n, d>>)
RAdd(a, b) == Norm(<<a[1] * b[2] + b[1] * a[2], a[2] * b[2]>>)
RSub(a, b) == Norm(<<a[1] * b[2] - b[1] * a[2], a[2] * b[2]>>)
RMul(a, b) == Norm(<<a[1] * b[1], a[2] * b[2]>>)
RDivInt(a, k) == Norm(<<a[1], a[2] * k>>)
RLess(a, b) == a[1] * b[2] < b[1] * a[2]
RLeq(a, b) == a[1] * b[2] <= b[1] * a[2]
RZero == <<0, 1>>
ROne == <<1, 1>>

\* a > b on numbers extended with -Infinity (bestScore starts at -Infinity)
Greater(a, b) ==
    IF a[2] = 0 THEN FALSE
    ELSE IF b[2] = 0 THEN TRUE
    ELSE RLess(b, a)

RECURSIVE SumRat(_, _)
SumRat(f, S) ==
    IF S = {} THEN RZero
    ELSE LET x == CHOOSE y \in S : TRUE
         IN  RAdd(f[x], SumRat(f, S \ {x}))

RECURSIVE SumInt(_, _)
SumInt(f, S) ==
    IF S = {} THEN 0
    ELSE LET x == CHOOSE y \in S : TRUE
         IN  f[x] + SumInt(f, S \ {x})

\* ---------------------------------------------------------------- the inputs
Periods == 1..constraints.maxPeriodsPerDay
AllSlots == (Dates \cup (0..(InitialDayTries - 1))) \X (1..AvailablePeriodCount)

Class(id, gradeLevel, gradeGroup, totalConflicts, partialConflicts) ==
    [id |-> id, gradeLevel |-> gradeLevel, gradeGroup |-> gradeGroup,
     totalConflicts |-> totalConflicts, partialConflicts |-> partialConflicts]

\* total conflicts that leave a class only the slots of S
AllBut(S) == AllSlots \ S

\* the catalogues handed to the schedulers; the id of a class is its position
Catalogues ==
    { \* two classes of one group, ascending grades, no conflicts
      <<Class(1, 1, "A", {}, {}), Class(2, 2, "A", {}, {})>>,
      \* two groups, descending grades, class 2 barred from (startDate, 1)
      <<Class(1, 2, "A", {}, {}), Class(2, 1, "B", {<<0, 1>>}, {})>>,
      \* class 1 discouraged from (startDate, 2)
      <<Class(1, 1, "A", {}, {<<0, 2>>}), Class(2, 2, "A", {<<0, 3>>}, {})>>,
      \* class 1 has no slot at all
      <<Class(1, 1, "A", AllSlots, {}), Class(2, 2, "A", {<<0, 1>>}, {})>>,
      \* no class has a slot
      <<Class(1, 1, "A", AllSlots, {}), Class(2, 2, "B", AllSlots, {})>>,
      \* three classes that only fit the first two periods of the start date
      <<Class(1, 1, "A", AllBut({<<0, 1>>, <<0, 2>>}), {}),
        Class(2, 3, "A", AllBut({<<0, 1>>, <<0, 2>>}), {}),
        Class(3, 2, "B", AllBut({<<0, 1>>, <<0, 2>>}), {})>>,
      \* one class, free everywhere and discouraged everywhere
      <<Class(1, 1, "A", {}, AllSlots)>> }

BlackoutChoices == {{<<0, 1>>}}

\* ------------------------------------------------- constraint validation
\* constraints.test.ts:98-100
validateMaxPeriodsPerDay(maxPeriodsPerDay) ==
    maxPeriodsPerDay > 0 /\ maxPeriodsPerDay <= 8

\* constraints.test.ts:102-106 with "<=" for "<" in the second test
validateMaxPeriodsPerWeekInclusive(maxPeriodsPerWeek, maxPeriodsPerDay) ==
    IF maxPeriodsPerWeek <= 0 \/ maxPeriodsPerWeek > 40 THEN FALSE
    ELSE IF /\ maxPeriodsPerDay # <<>>
            /\ maxPeriodsPerDay[1] # 0
            /\ maxPeriodsPerWeek <= maxPeriodsPerDay[1] * 5 THEN FALSE
    ELSE TRUE

\* constraints.test.ts:102-106; the optional maxPeriodsPerDay is <<>> when
\* omitted and <<d>> when given, and "maxPeriodsPerDay &&" is false for both
\* undefined and 0
validateMaxPeriodsPerWeek(maxPeriodsPerWeek, maxPeriodsPerDay) ==
    IF maxPeriodsPerWeek <= 0 \/ maxPeriodsPerWeek > 40 THEN FALSE
    ELSE IF /\ maxPeriodsPerDay # <<>>
            /\ maxPeriodsPerDay[1] # 0
            /\ maxPeriodsPerWeek < maxPeriodsPerDay[1] * 5 THEN FALSE
    ELSE TRUE

\* constraints.test.ts:108-116
validateConsecutivePeriods(consecutivePeriods) ==
    /\ consecutivePeriods.maximum \in {1, 2}
    /\ consecutivePeriods.requireBreak \in {1, 2}

\* the constraint sets handed to the constructors: valid ones, and one whose
\* consecutivePeriods.maximum is 3; the weekly limit is one class a week
ConstraintChoices(maxPeriods) ==
    [maxPeriodsPerDay : {maxPeriods},
     maxPeriodsPerWeek : {1},
     maxClassesPerDay : {1, 2},
     consecutivePeriods : {[maximum |-> 2, requireBreak |-> 1]}]
    \cup
    [maxPeriodsPerDay : {maxPeriods},
     maxPeriodsPerWeek : {1},
     maxClassesPerDay : {1},
     consecutivePeriods : {[maximum |-> 3, requireBreak |-> 1]}]

\* ------------------------------------------------------------------ scoring
\* cls.totalConflicts.some(c => c.date.getTime() === date.getTime() &&
\*                              c.period === period)
hasTotalConflict(cls, date, period) == <<date, period>> \in cls.totalConflicts

\* indices of the scheduled classes of list cl that satisfy nothing but
\* position: 1..Len(cl)
Idx(cl) == 1..Len(cl)

\* classes.length / this.classes.length
totalLength(cl) == Rat(Len(cl), Len(classes))

\* the members of one grade group, in list order
GroupMembers(cl, g) == SelectSeq(cl, LAMBDA e : classes[e.id].gradeGroup = g)

\* sum over i < j of |date_i - date_j|, in days
PairDistance(m) ==
    LET pairs == {p \in Idx(m) \X Idx(m) : p[1] < p[2]}
        dist == [p \in pairs |-> Abs(m[p[1]].date - m[p[2]].date)]
    IN  SumInt(dist, pairs)

PairCount(m) == Cardinality({p \in Idx(m) \X Idx(m) : p[1] < p[2]})

\* 1 - (totalDistance / comparisons) / (14 days), or nothing for a group
\* with a single member
GroupCohesion(m) ==
    IF PairCount(m) > 0
    THEN RSub(ROne, Rat(PairDistance(m), PairCount(m) * CohesionWindowDays))
    ELSE RZero

gradeGroupCohesion(cl) ==
    LET groups == {classes[cl[i].id].gradeGroup : i \in Idx(cl)}
        per == [g \in groups |-> GroupCohesion(GroupMembers(cl, g))]
    IN  IF groups = {} THEN RZero
        ELSE RDivInt(SumRat(per, groups), Cardinality(groups))

\* classesByDate / classesPerDay: number of scheduled classes per date
classesPerDay(cl) ==
    [d \in Dates \cup {cl[i].date : i \in Idx(cl)} |->
        Cardinality({i \in Idx(cl) : cl[i].date = d})]

\* lines 99-115 without the division by classesByDate.size
distributionQualityUnaveraged(cl) ==
    LET used == {d \in DOMAIN classesPerDay(cl) : classesPerDay(cl)[d] > 0}
        per == [d \in used |->
                  Rat(classesPerDay(cl)[d], constraints.maxClassesPerDay)]
    IN  IF used = {} THEN RZero ELSE SumRat(per, used)

distributionQuality(cl) ==
    LET used == {d \in DOMAIN classesPerDay(cl) : classesPerDay(cl)[d] > 0}
        per == [d \in used |->
                  Rat(classesPerDay(cl)[d], constraints.maxClassesPerDay)]
    IN  IF used = {} THEN RZero
        ELSE RDivInt(SumRat(per, used), Cardinality(used))

\* the dates of cl in order of first appearance (Map insertion order)
RECURSIVE DayOrder(_, _)
DayOrder(cl, seen) ==
    IF cl = <<>> THEN <<>>
    ELSE IF Head(cl).date \in seen THEN DayOrder(Tail(cl), seen)
    ELSE <<Head(cl).date>> \o DayOrder(Tail(cl), seen \cup {Head(cl).date})

\* dayClasses.sort((a, b) => a.period - b.period): stable
RECURSIVE SortByPeriod(_, _)
SortByPeriod(dc, p) ==
    IF p > AvailablePeriodCount THEN <<>>
    ELSE SelectSeq(dc, LAMBDA e : e.period = p) \o SortByPeriod(dc, p + 1)

\* number of adjacent pairs with currentGrade <= nextGrade
GoodPairs(dc) ==
    Cardinality({i \in 1..(Len(dc) - 1) :
        classes[dc[i].id].gradeLevel <= classes[dc[i + 1].id].gradeLevel})

\* the running gradeProgression value: each day adds its good pairs to the
\* running value and then divides the running value by (length - 1)
RECURSIVE ProgressionFold(_, _, _)
ProgressionFold(cl, days, acc) ==
    IF days = <<>> THEN acc
    ELSE LET dc == SortByPeriod(SelectSeq(cl, LAMBDA e : e.date = Head(days)), 1)
             added == RAdd(acc, Rat(GoodPairs(dc), 1))
             next == IF Len(dc) > 1 THEN RDivInt(added, Len(dc) - 1) ELSE added
         IN  ProgressionFold(cl, Tail(days), next)

gradeProgression(cl) == ProgressionFold(cl, DayOrder(cl, {}), RZero)

calculateConstraintViolations(cl) ==
    Cardinality({i \in Idx(cl) :
        hasTotalConflict(classes[cl[i].id], cl[i].date, cl[i].period)})

calculateScore(cl) ==
    [totalLength |-> totalLength(cl),
     gradeGroupCohesion |-> gradeGroupCohesion(cl),
     distributionQuality |-> distributionQuality(cl),
     constraintViolations |-> calculateConstraintViolations(cl),
     gradeProgression |-> gradeProgression(cl),
     partialConflictPenalty |-> RZero]

\* weights 1, 0.5, 0.3, -100, 0.4, 0
aggregateScore(scores) ==
    RAdd(scores.totalLength,
    RAdd(RMul(Rat(1, 2), scores.gradeGroupCohesion),
    RAdd(RMul(Rat(3, 10), scores.distributionQuality),
    RAdd(Rat(-100 * scores.constraintViolations, 1),
    RAdd(RMul(Rat(2, 5), scores.gradeProgression),
         RMul(RZero, scores.partialConflictPenalty))))))

\* -------------------------------------------------- Schedule objects on the heap
Live == DOMAIN heap
Null == 0

\* a reference no variable of the running loop holds
FreshRef == CHOOSE r \in Refs : r \notin {currentSchedule, bestSchedule}
                /\ \A q \in Refs : q < r => q \in {currentSchedule, bestSchedule}

\* the objects still reachable from the loop's variables
Retain(h, keep) == [r \in (DOMAIN h) \cap keep |-> h[r]]

\* ---------------------------------------------- ScheduleEngine: placing a class
\* The slots the scan over the shuffled dates and periods can settle on: the
\* date holds fewer than maxClassesPerDay classes and the slot is not one of
\* the class's total conflicts.  The shuffles and the 0.99 coin can make any
\* of them the chosen slot; if there is none, bestSlot stays null.
PlaceableSlotsNoConflictCheck(cls, perDay) ==
    {s \in Dates \X Periods : perDay[s[1]] < constraints.maxClassesPerDay}

PlaceableSlotsNoDayCap(cls, perDay) ==
    {s \in Dates \X Periods : ~hasTotalConflict(cls, s[1], s[2])}

\* the scan also skipping the partial conflicts of the class
PlaceableSlotsAvoidingPartial(cls, perDay) ==
    {s \in Dates \X Periods :
        /\ perDay[s[1]] < constraints.maxClassesPerDay
        /\ ~hasTotalConflict(cls, s[1], s[2])
        /\ s \notin cls.partialConflicts}

PlaceableSlots(cls, perDay) ==
    {s \in Dates \X Periods :
        /\ perDay[s[1]] < constraints.maxClassesPerDay
        /\ ~hasTotalConflict(cls, s[1], s[2])}

ScheduledClass(cls, slot) == [id |-> cls.id, date |-> slot[1], period |-> slot[2]]

\* the forEach without the fallback to bestSlot: a class whose every slot
\* was turned down by the 0.99 coin stays unscheduled
RECURSIVE InitialClassListsNoFallback(_, _)
InitialClassListsNoFallback(k, acc) ==
    IF k > Len(classes) THEN {acc}
    ELSE LET slots == PlaceableSlots(classes[k], classesPerDay(acc))
         IN  InitialClassListsNoFallback(k + 1, acc) \cup
             UNION {InitialClassListsNoFallback(k + 1,
                        Append(acc, ScheduledClass(classes[k], s))) :
                    s \in slots}

\* every list of scheduled classes the forEach over this.classes can build
RECURSIVE InitialClassLists(_, _)
InitialClassLists(k, acc) ==
    IF k > Len(classes) THEN {acc}
    ELSE LET slots == PlaceableSlots(classes[k], classesPerDay(acc))
         IN  IF slots = {} THEN InitialClassLists(k + 1, acc)
             ELSE UNION {InitialClassLists(k + 1,
                             Append(acc, ScheduledClass(classes[k], s))) :
                         s \in slots}

generateInitialSolution ==
    {[classes |-> cl, score |-> calculateScore(cl)] :
        cl \in InitialClassLists(1, <<>>)}

\* mutateSchedule splicing the class out and pushing it back only when the
\* 0.99 coin accepted a slot
mutateScheduleSplicing(schedule, indexToMove) ==
    LET classToMove == schedule.classes[indexToMove]
        originalClass == classes[classToMove.id]
        counted == classesPerDay(schedule.classes)
        perDay == [counted EXCEPT ![classToMove.date] = @ - 1]
        slots == PlaceableSlots(originalClass, perDay)
        removed == SubSeq(schedule.classes, 1, indexToMove - 1)
                   \o SubSeq(schedule.classes, indexToMove + 1,
                             Len(schedule.classes))
        lists == {removed} \cup
                 {Append(removed, ScheduledClass(originalClass, s)) :
                     s \in slots}
    IN  {[classes |-> nc, score |-> calculateScore(nc)] : nc \in lists}

\* mutateSchedule pushing the moved class instead of replacing its entry
mutateScheduleAppending(schedule, indexToMove) ==
    LET classToMove == schedule.classes[indexToMove]
        originalClass == classes[classToMove.id]
        counted == classesPerDay(schedule.classes)
        perDay == [counted EXCEPT ![classToMove.date] = @ - 1]
        slots == PlaceableSlots(originalClass, perDay)
        lists == IF slots = {} THEN {schedule.classes}
                 ELSE {Append(schedule.classes, ScheduledClass(originalClass, s)) :
                          s \in slots}
    IN  {[classes |-> nc, score |-> calculateScore(nc)] : nc \in lists}

\* every Schedule mutateSchedule can return when it moves newClasses[indexToMove]
mutateSchedule(schedule, indexToMove) ==
    LET classToMove == schedule.classes[indexToMove]
        originalClass == classes[classToMove.id]
        counted == classesPerDay(schedule.classes)
        perDay == [counted EXCEPT ![classToMove.date] = @ - 1]
        slots == PlaceableSlots(originalClass, perDay)
        moved(s) == [schedule.classes EXCEPT
                        ![indexToMove] = ScheduledClass(originalClass, s)]
        lists == IF slots = {} THEN {schedule.classes}
                 ELSE {moved(s) : s \in slots}
    IN  {[classes |-> nc, score |-> calculateScore(nc)] : nc \in lists}

\* the heap after mutateSchedule(input) returned a new object at fresh
StoreMutationInPlace(h, input, fresh, result) ==
    [r \in (DOMAIN h) \cup {fresh} |->
        IF r \in {fresh, input} THEN result ELSE h[r]]

StoreMutation(h, input, fresh, result) ==
    [r \in (DOMAIN h) \cup {fresh} |-> IF r = fresh THEN result ELSE h[r]]

\* -------------------------------------------------------------- acceptance
\* outcomes of Math.random() < Math.exp(delta / temperature), temperature > 0:
\* exp is 1 for delta = 0 and Math.random() is below 1
RandomBelowExp(currentScore, newScore) ==
    IF RLeq(currentScore, newScore) THEN {TRUE} ELSE {TRUE, FALSE}

\* newScore > currentScore || Math.random() < Math.exp(...)
EngineAcceptSwapped(currentScore, newScore) ==
    IF Greater(currentScore, newScore) THEN {TRUE}
    ELSE RandomBelowExp(newScore, currentScore)

EngineAccept(currentScore, newScore) ==
    IF Greater(newScore, currentScore) THEN {TRUE}
    ELSE RandomBelowExp(currentScore, newScore)

\* the loop condition with "||" for "&&"
EngineLoopConditionEither(its, last) ==
    \/ its < MAX_ITERATIONS
    \/ (its - last) < maxIterationsWithoutImprovement

\* iterations < MAX_ITERATIONS &&
\* (iterations - lastImprovement) < maxIterationsWithoutImprovement
EngineLoopCondition(its, last) ==
    /\ its < MAX_ITERATIONS
    /\ (its - last) < maxIterationsWithoutImprovement

\* ------------------------------------------------ engine helpers of optimize
\* hasConflict(period, date, cls, scheduledClasses): the slot is a total
\* conflict of the class or is held by a scheduled class
hasConflict(period, date, cls, scheduledClasses) ==
    \/ hasTotalConflict(cls, date, period)
    \/ \E i \in Idx(scheduledClasses) :
          scheduledClasses[i].date = date /\ scheduledClasses[i].period = period

\* getAvailablePeriods(date, cls, others): the periods of the day without
\* conflict, ascending
getAvailablePeriods(date, cls, others) ==
    SelectSeq([p \in 1..constraints.maxPeriodsPerDay |-> p],
              LAMBDA p : ~hasConflict(p, date, cls, others))

\* checkClassConflicts(date, period, cls)
checkClassConflicts(date, period, cls) ==
    [hasConflict |-> hasTotalConflict(cls, date, period),
     partialConflictCount |->
        IF <<date, period>> \in cls.partialConflicts THEN 1 ELSE 0]

\* calculateScore(schedule) as a number: the weighted aggregate
ScheduleScore(schedule) == aggregateScore(calculateScore(schedule.classes))

\* schedule.clone(): a new object with a copy of the list and of the score
clone(schedule) == [classes |-> schedule.classes, score |-> schedule.score]

\* -------------------------------------------- SimulatedAnnealing.optimize
\* the first (dayOffset, period) without conflict, days first
FirstFreeSlot(cls, scheduled) ==
    LET free == {s \in (0..(InitialDayTries - 1)) \X (1..AvailablePeriodCount) :
                    ~hasConflict(s[2], s[1], cls, scheduled)}
    IN  IF free = {} THEN <<>>
        ELSE <<CHOOSE s \in free : \A t \in free :
                  s[1] < t[1] \/ (s[1] = t[1] /\ s[2] <= t[2])>>

RECURSIVE SABuild(_, _)
SABuild(k, acc) ==
    IF k > Len(classes) THEN acc
    ELSE LET slot == FirstFreeSlot(classes[k], acc)
         IN  IF slot = <<>> THEN SABuild(k + 1, acc)
             ELSE SABuild(k + 1, Append(acc, ScheduledClass(classes[k], slot[1])))

SAgenerateInitialSolution ==
    LET cl == SABuild(1, <<>>)
    IN  [classes |-> cl, score |-> calculateScore(cl)]

Others(cl, i) == SubSeq(cl, 1, i - 1) \o SubSeq(cl, i + 1, Len(cl))

\* periodsWithScores.sort((a, b) => a.conflicts - b.conflicts): stable
RECURSIVE SortByConflicts(_, _, _, _)
SortByConflicts(ps, date, cls, c) ==
    IF c > 1 THEN <<>>
    ELSE SelectSeq(ps, LAMBDA p :
             checkClassConflicts(date, p, cls).partialConflictCount = c)
         \o SortByConflicts(ps, date, cls, c + 1)

Min(a, b) == IF a < b THEN a ELSE b

\* SimulatedAnnealing.mutateSchedule without the sort by conflicts
SAmutateScheduleUnsorted(schedule, randomIndex) ==
    LET mutated == clone(schedule)
        classToMove == mutated.classes[randomIndex]
        cls == classes[classToMove.id]
        availablePeriods ==
            getAvailablePeriods(classToMove.date, cls,
                                Others(mutated.classes, randomIndex))
        topPeriods == SubSeq(availablePeriods, 1, Min(3, Len(availablePeriods)))
    IN  IF Len(availablePeriods) > 0
        THEN {[mutated EXCEPT !.classes[randomIndex].period = topPeriods[j]] :
                 j \in 1..Len(topPeriods)}
        ELSE {mutated}

\* every Schedule SimulatedAnnealing.mutateSchedule can return when it moves
\* scheduledClasses[randomIndex]
SAmutateSchedule(schedule, randomIndex) ==
    LET mutated == clone(schedule)
        classToMove == mutated.classes[randomIndex]
        cls == classes[classToMove.id]
        availablePeriods ==
            getAvailablePeriods(classToMove.date, cls,
                                Others(mutated.classes, randomIndex))
        sorted == SortByConflicts(availablePeriods, classToMove.date, cls, 0)
        topPeriods == SubSeq(sorted, 1, Min(3, Len(sorted)))
    IN  IF Len(availablePeriods) > 0
        THEN {[mutated EXCEPT !.classes[randomIndex].period = topPeriods[j]] :
                 j \in 1..Len(topPeriods)}
        ELSE {mutated}

\* acceptSchedule(currentScore, newScore, temperature)
acceptScheduleCoinOnTie(currentScore, newScore) ==
    IF Greater(newScore, currentScore) THEN {TRUE} ELSE {TRUE, FALSE}

acceptSchedule(currentScore, newScore) ==
    IF Greater(newScore, currentScore) THEN {TRUE}
    ELSE RandomBelowExp(currentScore, newScore)

\* temperature > minTemperature && iteration < maxIterations
SALoopConditionNoFloor(temp, it) ==
    it < config.maxIterations

SALoopCondition(temp, it) ==
    /\ RLess(config.minTemperature, temp)
    /\ it < config.maxIterations

RMax(a, b) == IF RLess(a, b) THEN b ELSE a

\* ------------------------------------------------------------------- Init
\* the user interface untouched: an empty class form, a ScheduleGenerator
\* that was never clicked, countConsecutivePeriods not called
UiIdle ==
    /\ periodArg = 0 /\ dateArg = 0 /\ consecutiveCount = 0
    /\ formTotalConflicts = <<>> /\ formPartialConflicts = <<>>
    /\ toggles = 0
    /\ isGenerating = FALSE /\ error = "null" /\ generatedSchedule = <<>>
    /\ clicks = 0

\* the unused configuration slot of a ScheduleEngine run
NoConfig ==
    [initialTemperature |-> ROne, coolingRate |-> ROne,
     minTemperature |-> RZero, maxIterations |-> 0, iterationsPerTemp |-> 1]

\* configurations of optimize: coolingRate in (0,1), a positive floor
ConfigChoices ==
    [initialTemperature : {Rat(4, 1)},
     coolingRate : {Rat(1, 2)},
     minTemperature : {ROne, Rat(1, 100)},
     maxIterations : {MaxConfigIterations - 1, MaxConfigIterations},
     iterationsPerTemp : 1..MaxIterationsPerTemp]

\* ----------------------------------- SimulatedAnnealingScheduler, workers
\* parallelScheduler.ts:27: at most 8 workers
WorkerCap == 8
\* the workerCount arguments tried; 4 is the default of the constructor
WorkerCountChoices == {0, 1, 2, 4, WorkerCap + 1}

\* simulatedAnnealing.ts:52-58: the defaults a given config is spread over
SimulatedAnnealingDefaults ==
    [initialTemperature |-> Rat(1000, 1), coolingRate |-> Rat(95, 100),
     maxIterations |-> 10000, minTemperature |-> Rat(1, 100)]

\* parallelScheduler.ts:30-38 with a cooling step of 0.2 for 0.001
createWorkerConfigSteepCooling(i) ==
    [initialTemperature |->
        RMul(Rat(1000, 1), RAdd(ROne, RMul(Rat(i, 1), Rat(2, 10)))),
     coolingRate |-> RSub(Rat(995, 1000), RMul(Rat(i, 1), Rat(2, 10))),
     minTemperature |->
        RMul(Rat(1, 10), RAdd(ROne, RMul(Rat(i, 1), Rat(1, 10)))),
     iterationsPerTemp |-> 300 + (i * 50),
     maxRestarts |-> 5]

\* parallelScheduler.ts:30-38
createWorkerConfig(i) ==
    [initialTemperature |->
        RMul(Rat(1000, 1), RAdd(ROne, RMul(Rat(i, 1), Rat(2, 10)))),
     coolingRate |-> RSub(Rat(995, 1000), RMul(Rat(i, 1), Rat(1, 1000))),
     minTemperature |->
        RMul(Rat(1, 10), RAdd(ROne, RMul(Rat(i, 1), Rat(1, 10)))),
     iterationsPerTemp |-> 300 + (i * 50),
     maxRestarts |-> 5]

\* what an async function hands its caller: a Promise around its outcome
Promise(settled, value) ==
    [kind |-> "Promise", settled |-> settled, value |-> value]

\* simulatedAnnealing.ts:211-223: optimizedSchedule.classes.length on what
\* optimize handed back.  A Promise has no classes property, so .length
\* raises a TypeError; the catch turns every error into a new Error.
SchedulerOutcome(optimizedSchedule) ==
    IF optimizedSchedule.kind = "Promise" THEN [status |-> "raised"]
    ELSE IF Len(optimizedSchedule.classes) = 0 THEN [status |-> "raised"]
    ELSE [status |-> "returned", schedule |-> optimizedSchedule]

Init ==
    /\ run \in {"ScheduleEngine", "SimulatedAnnealing", "ParallelScheduler"}
    /\ preferences = [gradeProgression |-> "none"]
    /\ classes \in Catalogues
    /\ config \in IF run = "SimulatedAnnealing" THEN ConfigChoices ELSE {NoConfig}
    /\ constraints \in
          ConstraintChoices(IF run = "SimulatedAnnealing" THEN 3 ELSE 2)
    /\ validateConsecutivePeriods(constraints.consecutivePeriods)
          \/ (run = "ScheduleEngine" /\ Len(classes) = 1)
    /\ blackoutPeriods \in BlackoutChoices
    /\ pc = "start"
    /\ heap = <<>>
    /\ currentSchedule = Null
    /\ bestSchedule = Null
    /\ newSchedule = Null
    /\ bestScore = NegInfinity
    /\ iterations = 0
    /\ lastImprovement = 0
    /\ temperature = ROne
    /\ maxSeen = NegInfinity
    /\ workerCountArg \in
          IF run = "ParallelScheduler" THEN WorkerCountChoices ELSE {0}
    /\ workerCount = Min(workerCountArg, WorkerCap)
    /\ workerIndex = 0
    /\ workers = 0
    /\ runResults = <<>>
    /\ weekArg = 0 /\ dayArg = <<>> /\ verdict = "none"
    /\ UiIdle

\* ------------------------------------------ ScheduleEngine.generateSchedule
\* lines 391-398 with a builder that reverses this.classes in place
EngineStartSortingCatalogue ==
    /\ run = "ScheduleEngine" /\ pc = "start"
    /\ \E initial \in generateInitialSolution :
          /\ heap' = (1 :> initial)
          /\ maxSeen' = aggregateScore(initial.score)
    /\ classes' = [k \in 1..Len(classes) |-> classes[Len(classes) + 1 - k]]
    /\ currentSchedule' = 1
    /\ bestSchedule' = 1
    /\ iterations' = 0
    /\ bestScore' = NegInfinity
    /\ lastImprovement' = 0
    /\ pc' = "loop"
    /\ UNCHANGED <<parVars, valVars, uiVars, run, preferences, constraints, blackoutPeriods, config,
                   newSchedule, temperature>>

\* lines 391-398: the locals and the initial solution
EngineStart ==
    /\ run = "ScheduleEngine" /\ pc = "start"
    /\ \E initial \in generateInitialSolution :
          /\ heap' = (1 :> initial)
          /\ maxSeen' = aggregateScore(initial.score)
    /\ currentSchedule' = 1
    /\ bestSchedule' = 1
    /\ iterations' = 0
    /\ bestScore' = NegInfinity
    /\ lastImprovement' = 0
    /\ pc' = "loop"
    /\ UNCHANGED <<parVars, valVars, uiVars, run, preferences, classes, constraints, blackoutPeriods, config,
                   newSchedule, temperature>>

\* one pass of the while loop, lines 404-425
EngineIterate ==
    /\ run = "ScheduleEngine" /\ pc = "loop"
    /\ EngineLoopCondition(iterations, lastImprovement)
    /\ Len(heap[currentSchedule].classes) > 0
    /\ \E indexToMove \in 1..Len(heap[currentSchedule].classes) :
       \E result \in mutateSchedule(heap[currentSchedule], indexToMove) :
          LET fresh == FreshRef
              h == StoreMutation(heap, currentSchedule, fresh, result)
              currentScore == aggregateScore(h[currentSchedule].score)
              newScore == aggregateScore(h[fresh].score)
          IN  \E accept \in EngineAccept(currentScore, newScore) :
                LET improved == accept /\ Greater(newScore, bestScore)
                    cur == IF accept THEN fresh ELSE currentSchedule
                    best == IF improved THEN fresh ELSE bestSchedule
                IN  /\ currentSchedule' = cur
                    /\ bestSchedule' = best
                    /\ bestScore' = IF improved THEN newScore ELSE bestScore
                    /\ lastImprovement' =
                          IF improved THEN iterations ELSE lastImprovement
                    /\ newSchedule' = fresh
                    /\ heap' = Retain(h, {cur, best, fresh})
                    /\ maxSeen' = RMax(maxSeen, aggregateScore(h[cur].score))
    /\ iterations' = iterations + 1
    /\ UNCHANGED <<parVars, valVars, uiVars, run, preferences, classes, constraints, blackoutPeriods, config, pc,
                   temperature>>

\* mutateSchedule on an empty schedule: newClasses[0] is undefined and
\* classToMove.id raises a TypeError that generateSchedule does not catch
EngineMutateThrows ==
    /\ run = "ScheduleEngine" /\ pc = "loop"
    /\ EngineLoopCondition(iterations, lastImprovement)
    /\ Len(heap[currentSchedule].classes) = 0
    /\ pc' = "threw"
    /\ UNCHANGED <<parVars, valVars, uiVars, run, preferences, classes, constraints, blackoutPeriods, config, heap,
                   currentSchedule, bestSchedule, newSchedule, bestScore,
                   iterations, lastImprovement, temperature, maxSeen>>

\* the loop condition fails: return bestSchedule
EngineReturn ==
    /\ run = "ScheduleEngine" /\ pc = "loop"
    /\ ~EngineLoopCondition(iterations, lastImprovement)
    /\ pc' = "done"
    /\ UNCHANGED <<parVars, valVars, uiVars, run, preferences, classes, constraints, blackoutPeriods, config, heap,
                   currentSchedule, bestSchedule, newSchedule, bestScore,
                   iterations, lastImprovement, temperature, maxSeen>>

\* lines 62-65 of optimize
SAStart ==
    /\ run = "SimulatedAnnealing" /\ pc = "start"
    /\ heap' = (1 :> SAgenerateInitialSolution)
    /\ maxSeen' = ScheduleScore(SAgenerateInitialSolution)
    /\ currentSchedule' = 1
    /\ bestSchedule' = 1
    /\ temperature' = config.initialTemperature
    /\ iterations' = 0
    /\ lastImprovement' = 0
    /\ pc' = "loop"
    /\ UNCHANGED <<parVars, valVars, uiVars, run, preferences, classes, constraints, blackoutPeriods, config,
                   newSchedule, bestScore>>

\* one pass of the while loop of optimize, lines 67-81
SAIterate ==
    /\ run = "SimulatedAnnealing" /\ pc = "loop"
    /\ SALoopCondition(temperature, iterations)
    /\ Len(heap[currentSchedule].classes) > 0
    /\ \E randomIndex \in 1..Len(heap[currentSchedule].classes) :
       \E result \in SAmutateSchedule(heap[currentSchedule], randomIndex) :
          LET fresh == FreshRef
              h == StoreMutation(heap, currentSchedule, fresh, result)
              currentScore == ScheduleScore(h[currentSchedule])
              newScore == ScheduleScore(h[fresh])
          IN  \E accept \in acceptSchedule(currentScore, newScore) :
                LET improved == accept /\
                        Greater(newScore, ScheduleScore(h[bestSchedule]))
                    cur == IF accept THEN fresh ELSE currentSchedule
                    best == IF improved THEN fresh ELSE bestSchedule
                IN  /\ currentSchedule' = cur
                    /\ bestSchedule' = best
                    /\ lastImprovement' =
                          IF improved THEN iterations ELSE lastImprovement
                    /\ newSchedule' = fresh
                    /\ heap' = Retain(h, {cur, best, fresh})
                    /\ maxSeen' = RMax(maxSeen, ScheduleScore(h[cur]))
    /\ temperature' = RMul(temperature, config.coolingRate)
    /\ iterations' = iterations + 1
    /\ UNCHANGED <<parVars, valVars, uiVars, run, preferences, classes, constraints, blackoutPeriods, config, pc,
                   bestScore>>

\* mutateSchedule on an empty schedule: scheduledClasses[0] is undefined and
\* classToMove.date raises a TypeError
SAMutateThrows ==
    /\ run = "SimulatedAnnealing" /\ pc = "loop"
    /\ SALoopCondition(temperature, iterations)
    /\ Len(heap[currentSchedule].classes) = 0
    /\ pc' = "threw"
    /\ UNCHANGED <<parVars, valVars, uiVars, run, preferences, classes, constraints, blackoutPeriods, config, heap,
                   currentSchedule, bestSchedule, newSchedule, bestScore,
                   iterations, lastImprovement, temperature, maxSeen>>

\* the loop condition fails: return bestSolution
SAReturn ==
    /\ run = "SimulatedAnnealing" /\ pc = "loop"
    /\ ~SALoopCondition(temperature, iterations)
    /\ pc' = "done"
    /\ UNCHANGED <<parVars, valVars, uiVars, run, preferences, classes, constraints, blackoutPeriods, config, heap,
                   currentSchedule, bestSchedule, newSchedule, bestScore,
                   iterations, lastImprovement, temperature, maxSeen>>

\* SimulatedAnnealingScheduler.generateSchedule, lines 211-223, once its
\* call of optimize is over: optimize ran to its return (the Promise is
\* fulfilled) or raised inside its async body (the Promise is rejected)
SchedulerGenerateSchedule ==
    /\ run = "SimulatedAnnealing" /\ pc \in {"done", "threw"}
    /\ LET optimizedSchedule ==
              IF pc = "done" THEN Promise("fulfilled", heap[bestSchedule])
              ELSE Promise("rejected", <<>>)
       IN  pc' = SchedulerOutcome(optimizedSchedule).status
    /\ UNCHANGED <<parVars, valVars, uiVars, run, preferences, classes, constraints,
                   blackoutPeriods, config, heap, currentSchedule,
                   bestSchedule, newSchedule, bestScore, iterations,
                   lastImprovement, temperature, maxSeen>>

\* ---------------------------------------- ParallelScheduler.generateSchedule
\* lines 41-42: the locals
ParStart ==
    /\ run = "ParallelScheduler" /\ pc = "start"
    /\ bestSchedule' = Null
    /\ bestScore' = NegInfinity
    /\ workerIndex' = 0
    /\ pc' = "workers"
    /\ UNCHANGED <<valVars, uiVars, workerCountArg, workerCount, workers, runResults,
                   run, preferences, classes,
                   constraints, blackoutPeriods, config, heap, currentSchedule,
                   newSchedule, iterations, lastImprovement, temperature,
                   maxSeen>>

\* the comparison score of lines 66-68
WorkerScore(schedule) ==
    RAdd(RAdd(schedule.score.gradeGroupCohesion,
              schedule.score.distributionQuality),
         RMul(Rat(Len(schedule.classes), Len(classes)), Rat(1000, 1)))

\* one pass of the for loop, lines 45-74: a mock worker is pushed, a
\* scheduler is built with createWorkerConfig(i) and its generateSchedule is
\* awaited; an error it raises is not caught and ends generateSchedule
ParRun ==
    /\ run = "ParallelScheduler" /\ pc = "workers"
    /\ workerIndex < workerCount
    /\ workers' = workers + 1
    /\ config' = createWorkerConfig(workerIndex) @@ SimulatedAnnealingDefaults
    /\ LET outcome == SchedulerOutcome(Promise("settled", <<>>))
       IN  IF outcome.status = "raised"
           THEN /\ pc' = "raised"
                /\ UNCHANGED <<workerIndex, bestSchedule, bestScore, heap,
                               runResults>>
           ELSE LET score == WorkerScore(outcome.schedule)
                    fresh == FreshRef
                IN  /\ pc' = pc
                    /\ workerIndex' = workerIndex + 1
                    /\ runResults' =
                          Append(runResults, [score |-> score,
                                              schedule |-> outcome.schedule])
                    /\ IF Greater(score, bestScore)
                       THEN /\ bestScore' = score
                            /\ bestSchedule' = fresh
                            /\ heap' = (fresh :> outcome.schedule)
                       ELSE UNCHANGED <<bestSchedule, bestScore, heap>>
    /\ UNCHANGED <<valVars, uiVars, workerCountArg, workerCount, run, preferences, classes,
                   constraints, blackoutPeriods, currentSchedule, newSchedule,
                   iterations, lastImprovement, temperature, maxSeen>>

\* lines 76-79: terminateWorkers and return bestSchedule!, null included
ParReturn ==
    /\ run = "ParallelScheduler" /\ pc = "workers"
    /\ ~(workerIndex < workerCount)
    /\ workers' = 0
    /\ pc' = "done"
    /\ UNCHANGED <<valVars, uiVars, workerCountArg, workerCount, workerIndex,
                   runResults, run, preferences, classes, constraints, blackoutPeriods, config, heap,
                   currentSchedule, bestSchedule, newSchedule, bestScore,
                   iterations, lastImprovement, temperature, maxSeen>>

Next ==
    \/ EngineStart
    \/ EngineIterate
    \/ EngineMutateThrows
    \/ EngineReturn
    \/ SAStart
    \/ SAIterate
    \/ SAMutateThrows
    \/ SAReturn
    \/ SchedulerGenerateSchedule
    \/ ParStart
    \/ ParRun
    \/ ParReturn

Spec == Init /\ [][Next]_vars

\* ------------------------------------------- validateMaxPeriodsPerWeek alone
\* the weekly limits tried: both sides of 1 and of 40
WeekArgs == (0 - 1)..42
\* the daily limits tried: omitted, or a number on both sides of 1..8
DayArgs == {<<>>} \cup {<<d>> : d \in (0 - 1)..9}

ValidationInit ==
    /\ run = "validateMaxPeriodsPerWeek"
    /\ preferences = [gradeProgression |-> "none"]
    /\ weekArg \in WeekArgs
    /\ dayArg \in DayArgs
    /\ verdict = "none"
    /\ pc = "start"
    /\ classes = <<>>
    /\ config = NoConfig
    /\ constraints = [maxPeriodsPerDay |-> 2, maxClassesPerDay |-> 1,
                      consecutivePeriods |-> [maximum |-> 2, requireBreak |-> 1]]
    /\ blackoutPeriods = {}
    /\ heap = <<>>
    /\ currentSchedule = Null
    /\ bestSchedule = Null
    /\ newSchedule = Null
    /\ bestScore = NegInfinity
    /\ iterations = 0
    /\ lastImprovement = 0
    /\ temperature = ROne
    /\ maxSeen = NegInfinity
    /\ workerCountArg = 0 /\ workerCount = 0 /\ workerIndex = 0 /\ workers = 0
    /\ runResults = <<>>
    /\ UiIdle

\* one call of validateMaxPeriodsPerWeek(weekArg, dayArg)
Validate ==
    /\ run = "validateMaxPeriodsPerWeek" /\ pc = "start"
    /\ verdict' = IF validateMaxPeriodsPerWeek(weekArg, dayArg)
                  THEN "accepted" ELSE "rejected"
    /\ pc' = "done"
    /\ UNCHANGED <<parVars, uiVars, weekArg, dayArg, run, preferences, classes, constraints,
                   blackoutPeriods, config, heap, currentSchedule,
                   bestSchedule, newSchedule, bestScore, iterations,
                   lastImprovement, temperature, maxSeen>>

ValidationNext == Validate

ValidationSpec == ValidationInit /\ [][ValidationNext]_vars

\* ------------------------------------------------- calculateScore alone
\* catalogues of the scored schedules: two grade groups, ascending and
\* descending grade levels, a partial and a total conflict
ScoreCatalogues ==
    { <<Class(1, 1, "A", {}, {<<0, 1>>}), Class(2, 2, "A", {}, {}),
        Class(3, 3, "B", {}, {})>>,
      <<Class(1, 3, "A", {}, {}), Class(2, 2, "B", {<<0, 1>>}, {}),
        Class(3, 1, "B", {}, {})>> }

\* the slots of the scored schedules: three periods on each date
ScoreSlots == Dates \X (1..3)

\* every existing schedule that places the first n classes of the catalogue
ExistingSchedules(catalogue) ==
    UNION {{[k \in 1..n |-> ScheduledClass(catalogue[k], f[k])] :
               f \in [1..n -> ScoreSlots]} : n \in 1..Len(catalogue)}

\* builders.ts:251-257: the score of a schedule that was never scored
ZeroScore ==
    [totalLength |-> RZero, gradeGroupCohesion |-> RZero,
     distributionQuality |-> RZero, constraintViolations |-> 0,
     gradeProgression |-> RZero]

ScoreInit ==
    /\ run = "calculateScore"
    /\ preferences \in
          [gradeProgression : {"none", "low-to-high", "high-to-low"}]
    /\ classes \in ScoreCatalogues
    /\ constraints \in
          [maxPeriodsPerDay : {2},
           maxClassesPerDay : {1, 2},
           consecutivePeriods : {[maximum |-> 2, requireBreak |-> 1]}]
    /\ heap \in {(1 :> [classes |-> cl, score |-> ZeroScore]) :
                    cl \in ExistingSchedules(classes)}
    /\ currentSchedule = 1
    /\ pc = "start"
    /\ config = NoConfig
    /\ blackoutPeriods = {}
    /\ bestSchedule = Null
    /\ newSchedule = Null
    /\ bestScore = NegInfinity
    /\ iterations = 0
    /\ lastImprovement = 0
    /\ temperature = ROne
    /\ maxSeen = NegInfinity
    /\ workerCountArg = 0 /\ workerCount = 0 /\ workerIndex = 0 /\ workers = 0
    /\ runResults = <<>>
    /\ weekArg = 0 /\ dayArg = <<>> /\ verdict = "none"
    /\ UiIdle

\* calculateScore(classes) on the existing schedule; the result is stored as
\* its score
Score ==
    /\ run = "calculateScore" /\ pc = "start"
    /\ heap' = (1 :> [classes |-> heap[1].classes,
                      score |-> calculateScore(heap[1].classes)])
    /\ pc' = "done"
    /\ UNCHANGED <<parVars, valVars, uiVars, run, preferences, classes, constraints,
                   blackoutPeriods, config, currentSchedule, bestSchedule,
                   newSchedule, bestScore, iterations, lastImprovement,
                   temperature, maxSeen>>

ScoreNext == Score

ScoreSpec == ScoreInit /\ [][ScoreNext]_vars

\* ------------------------------------------- the Schedule of builders.ts
\* most entries a schedule is grown to
MaxScheduleLen == 3

\* builders.ts:240-244: class number index (from 0) goes to day
\* floor(index / 4), period (index % 4) + 1
BuiltEntry(cls, index) ==
    [id |-> cls.id, date |-> index \div 4, period |-> (index % 4) + 1]

\* builders.ts:234-294, build(): the Schedule of all the builder's classes;
\* endDate is 7 days after startDate
build ==
    [classes |-> [k \in 1..Len(classes) |-> BuiltEntry(classes[k], k - 1)],
     endDate |-> 7,
     score |-> ZeroScore]

\* the scheduled classes handed to addClass and removeClass
ScheduleEntries ==
    {ScheduledClass(classes[k], s) :
        k \in 1..Len(classes), s \in {<<0, 1>>, <<1, 2>>}}

\* builders.ts:277-280: this.classes filtered by the ids of this.classes
getUnscheduledClasses(schedule) ==
    LET scheduledIds == {schedule.classes[i].id : i \in Idx(schedule.classes)}
    IN  SelectSeq(schedule.classes, LAMBDA c : c.id \notin scheduledIds)

ScheduleInit ==
    /\ run = "Schedule"
    /\ preferences = [gradeProgression |-> "none"]
    /\ classes \in ScoreCatalogues
    /\ constraints = [maxPeriodsPerDay |-> 2, maxClassesPerDay |-> 2,
                      consecutivePeriods |-> [maximum |-> 2, requireBreak |-> 1]]
    /\ heap = (1 :> build)
    /\ currentSchedule = 1
    /\ pc = "start"
    /\ config = NoConfig
    /\ blackoutPeriods = {}
    /\ bestSchedule = Null
    /\ newSchedule = Null
    /\ bestScore = NegInfinity
    /\ iterations = 0
    /\ lastImprovement = 0
    /\ temperature = ROne
    /\ maxSeen = NegInfinity
    /\ workerCountArg = 0 /\ workerCount = 0 /\ workerIndex = 0 /\ workers = 0
    /\ runResults = <<>>
    /\ weekArg = 0 /\ dayArg = <<>> /\ verdict = "none"
    /\ UiIdle

\* builders.ts:282-285: push, and endDate moved to cover the date
addClass ==
    /\ run = "Schedule"
    /\ Len(heap[1].classes) < MaxScheduleLen
    /\ \E cls \in ScheduleEntries :
          heap' = (1 :> [heap[1] EXCEPT
                           !.classes = Append(@, cls),
                           !.endDate = IF cls.date > @ THEN cls.date ELSE @])
    /\ UNCHANGED <<parVars, valVars, uiVars, run, preferences, classes, constraints,
                   blackoutPeriods, config, pc, currentSchedule, bestSchedule,
                   newSchedule, bestScore, iterations, lastImprovement,
                   temperature, maxSeen>>

\* builders.ts:286-291: the first entry with the id of cls is spliced out
removeClass ==
    /\ run = "Schedule"
    /\ \E cls \in ScheduleEntries :
          LET found == {i \in Idx(heap[1].classes) :
                           heap[1].classes[i].id = cls.id}
              index == CHOOSE i \in found : \A j \in found : i <= j
          IN  heap' = IF found = {} THEN heap
                      ELSE (1 :> [heap[1] EXCEPT !.classes =
                                SubSeq(@, 1, index - 1) \o
                                SubSeq(@, index + 1, Len(@))])
    /\ UNCHANGED <<parVars, valVars, uiVars, run, preferences, classes, constraints,
                   blackoutPeriods, config, pc, currentSchedule, bestSchedule,
                   newSchedule, bestScore, iterations, lastImprovement,
                   temperature, maxSeen>>

ScheduleNext ==
    \/ addClass
    \/ removeClass

ScheduleSpec == ScheduleInit /\ [][ScheduleNext]_vars

\* ------------------------------ SimulatedAnnealing.mutateSchedule alone
\* the periods of a day of the mutated schedules
MutatePeriods == 4

\* catalogues of the mutated schedules: a class discouraged from the first
\* period of the start date next to a class barred from the whole start
\* date, and the class of the mutation test, discouraged from periods 1 to 3
MutateCatalogues ==
    { <<Class(1, 1, "A", {}, {<<0, 1>>}),
        Class(2, 2, "A", {0} \X (1..MutatePeriods), {})>>,
      <<Class(1, 1, "A", {}, {<<0, 1>>, <<0, 2>>, <<0, 3>>})>> }

\* every schedule that places the first n classes of the catalogue, on any
\* slot: mutateSchedule is handed schedules it did not build
MutateInputs(catalogue) ==
    UNION {{[k \in 1..n |-> ScheduledClass(catalogue[k], f[k])] :
               f \in [1..n -> Dates \X (1..MutatePeriods)]} :
           n \in 1..Len(catalogue)}

MutateInit ==
    /\ run = "mutateSchedule"
    /\ preferences = [gradeProgression |-> "none"]
    /\ classes \in MutateCatalogues
    /\ constraints =
          [maxPeriodsPerDay |-> MutatePeriods, maxPeriodsPerWeek |-> 20,
           maxClassesPerDay |-> 2,
           consecutivePeriods |-> [maximum |-> 2, requireBreak |-> 1]]
    /\ heap \in {(1 :> [classes |-> cl, score |-> ZeroScore]) :
                    cl \in MutateInputs(classes)}
    /\ currentSchedule = 1
    /\ pc = "start"
    /\ config = NoConfig
    /\ blackoutPeriods = {}
    /\ bestSchedule = Null
    /\ newSchedule = Null
    /\ bestScore = NegInfinity
    /\ iterations = 0
    /\ lastImprovement = 0
    /\ temperature = ROne
    /\ maxSeen = NegInfinity
    /\ workerCountArg = 0 /\ workerCount = 0 /\ workerIndex = 0 /\ workers = 0
    /\ runResults = <<>>
    /\ weekArg = 0 /\ dayArg = <<>> /\ verdict = "none"
    /\ UiIdle

\* mutateSchedule(schedule) on the schedule at reference 1; the schedule it
\* returns is stored at reference 2
Mutate ==
    /\ run = "mutateSchedule" /\ pc = "start"
    /\ \E randomIndex \in Idx(heap[1].classes) :
       \E result \in SAmutateSchedule(heap[1], randomIndex) :
          heap' = [r \in {1, 2} |-> IF r = 1 THEN heap[1] ELSE result]
    /\ newSchedule' = 2
    /\ pc' = "done"
    /\ UNCHANGED <<parVars, valVars, uiVars, run, preferences, classes, constraints,
                   blackoutPeriods, config, currentSchedule, bestSchedule,
                   bestScore, iterations, lastImprovement, temperature,
                   maxSeen>>

MutateNext == Mutate

MutateSpec == MutateInit /\ [][MutateNext]_vars

\* --------------------------------------------- countConsecutivePeriods alone
\* the periods of a day of the counted schedules
CountPeriods == 5

\* lines 111-114: the steps of the first while loop, downwards from period
RECURSIVE PeriodsBefore(_, _)
PeriodsBefore(currentPeriod, dayClasses) ==
    IF \E i \in Idx(dayClasses) : dayClasses[i].period = currentPeriod - 1
    THEN 1 + PeriodsBefore(currentPeriod - 1, dayClasses)
    ELSE 0

\* lines 118-121: the steps of the second while loop, upwards from period
RECURSIVE PeriodsAfter(_, _)
PeriodsAfter(currentPeriod, dayClasses) ==
    IF \E i \in Idx(dayClasses) : dayClasses[i].period = currentPeriod + 1
    THEN 1 + PeriodsAfter(currentPeriod + 1, dayClasses)
    ELSE 0

\* schedule.ts:97-124 without the second while loop
countConsecutivePeriodsBackwardOnly(period, date, scheduledClasses) ==
    LET dayClasses == SelectSeq(scheduledClasses, LAMBDA cls : cls.date = date)
    IN  1 + PeriodsBefore(period, dayClasses)

\* schedule.ts:97-124
countConsecutivePeriods(period, date, scheduledClasses) ==
    LET dayClasses == SelectSeq(scheduledClasses, LAMBDA cls : cls.date = date)
    IN  1 + PeriodsBefore(period, dayClasses) + PeriodsAfter(period, dayClasses)

\* the scheduled classes handed to countConsecutivePeriods: up to three
\* entries on any slots, two of them possibly on one slot
CountInputs ==
    UNION {[1..n -> [id : {1}, date : Dates, period : 1..CountPeriods]] :
              n \in 0..3}

CountInit ==
    /\ run = "countConsecutivePeriods"
    /\ preferences = [gradeProgression |-> "none"]
    /\ classes = <<Class(1, 1, "A", {}, {})>>
    /\ constraints =
          [maxPeriodsPerDay |-> CountPeriods, maxPeriodsPerWeek |-> 20,
           maxClassesPerDay |-> 2,
           consecutivePeriods |-> [maximum |-> 2, requireBreak |-> 1]]
    /\ heap \in {(1 :> [classes |-> cl, score |-> ZeroScore]) :
                    cl \in CountInputs}
    /\ currentSchedule = 1
    /\ pc = "start"
    /\ config = NoConfig
    /\ blackoutPeriods = {}
    /\ bestSchedule = Null
    /\ newSchedule = Null
    /\ bestScore = NegInfinity
    /\ iterations = 0
    /\ lastImprovement = 0
    /\ temperature = ROne
    /\ maxSeen = NegInfinity
    /\ workerCountArg = 0 /\ workerCount = 0 /\ workerIndex = 0 /\ workers = 0
    /\ runResults = <<>>
    /\ weekArg = 0 /\ dayArg = <<>> /\ verdict = "none"
    /\ periodArg \in 1..CountPeriods
    /\ dateArg \in Dates
    /\ consecutiveCount = 0
    /\ formTotalConflicts = <<>> /\ formPartialConflicts = <<>>
    /\ toggles = 0
    /\ isGenerating = FALSE /\ error = "null" /\ generatedSchedule = <<>>
    /\ clicks = 0

\* one call of countConsecutivePeriods(periodArg, dateArg, classes at 1)
Count ==
    /\ run = "countConsecutivePeriods" /\ pc = "start"
    /\ consecutiveCount' =
          countConsecutivePeriods(periodArg, dateArg, heap[1].classes)
    /\ pc' = "done"
    /\ UNCHANGED <<parVars, valVars, periodArg, dateArg, formTotalConflicts,
                   formPartialConflicts, toggles, isGenerating, error,
                   generatedSchedule, clicks, run, preferences, classes,
                   constraints, blackoutPeriods, config, heap,
                   currentSchedule, bestSchedule, newSchedule, bestScore,
                   iterations, lastImprovement, temperature, maxSeen>>

CountNext == Count

CountSpec == CountInit /\ [][CountNext]_vars

\* ------------------------------------------------- ClassForm's conflict grid
\* the days and periods of the grid (DAYS and PERIODS of the form, cut down)
FormDays == 2
FormPeriods == 2
\* the number of toggle operations followed
MaxToggles == 3

DAYS == 1..FormDays
PERIODS == 1..FormPeriods
ConflictTypes == {"total", "partial"}

\* DAYS.map(day => ({ dayOfWeek: day.number, periods: [] })); a periods list
\* never holds a period twice and is kept as the set of its periods
NoConflicts == [d \in DAYS |-> {}]

\* the two lists after an operation wrote changed to the list of its type and
\* other to the list of the other type
FormState(type, changed, other) ==
    IF type = "total" THEN [total |-> changed, partial |-> other]
    ELSE [total |-> other, partial |-> changed]

\* togglePeriod leaving the list of the other type as it is
togglePeriodKeepingOther(dayOfWeek, period, type) ==
    LET own == IF type = "total" THEN formTotalConflicts
               ELSE formPartialConflicts
        other == IF type = "total" THEN formPartialConflicts
                 ELSE formTotalConflicts
        newPeriods == IF period \in own[dayOfWeek]
                      THEN own[dayOfWeek] \ {period}
                      ELSE own[dayOfWeek] \cup {period}
    IN  FormState(type, [own EXCEPT ![dayOfWeek] = newPeriods], other)

\* ClassForm.togglePeriod, lines 191-241
togglePeriod(dayOfWeek, period, type) ==
    LET own == IF type = "total" THEN formTotalConflicts
               ELSE formPartialConflicts
        other == IF type = "total" THEN formPartialConflicts
                 ELSE formTotalConflicts
        newPeriods == IF period \in own[dayOfWeek]
                      THEN own[dayOfWeek] \ {period}
                      ELSE own[dayOfWeek] \cup {period}
    IN  FormState(type, [own EXCEPT ![dayOfWeek] = newPeriods],
                  [other EXCEPT ![dayOfWeek] = @ \ {period}])

\* ClassForm.toggleEntireDay, lines 243-281
toggleEntireDay(dayOfWeek, type) ==
    LET conflicts == IF type = "total" THEN formTotalConflicts
                     ELSE formPartialConflicts
        other == IF type = "total" THEN formPartialConflicts
                 ELSE formTotalConflicts
        hasAllPeriods ==
            Cardinality(conflicts[dayOfWeek]) = Cardinality(PERIODS)
    IN  FormState(type,
                  [conflicts EXCEPT
                      ![dayOfWeek] = IF hasAllPeriods THEN {} ELSE PERIODS],
                  IF hasAllPeriods THEN other
                  ELSE [other EXCEPT ![dayOfWeek] = {}])

\* ClassForm.togglePeriodAllDays, lines 283-326
togglePeriodAllDays(period, type) ==
    LET conflicts == IF type = "total" THEN formTotalConflicts
                     ELSE formPartialConflicts
        other == IF type = "total" THEN formPartialConflicts
                 ELSE formTotalConflicts
        allDaysHavePeriod == \A day \in DAYS : period \in conflicts[day]
    IN  FormState(type,
                  [d \in DAYS |-> IF allDaysHavePeriod
                                  THEN conflicts[d] \ {period}
                                  ELSE conflicts[d] \cup {period}],
                  IF allDaysHavePeriod THEN other
                  ELSE [d \in DAYS |-> other[d] \ {period}])

FormInit ==
    /\ run = "ClassForm"
    /\ preferences = [gradeProgression |-> "none"]
    /\ classes = <<>>
    /\ constraints =
          [maxPeriodsPerDay |-> FormPeriods, maxPeriodsPerWeek |-> 20,
           maxClassesPerDay |-> 2,
           consecutivePeriods |-> [maximum |-> 2, requireBreak |-> 1]]
    /\ heap = <<>>
    /\ currentSchedule = Null
    /\ pc = "start"
    /\ config = NoConfig
    /\ blackoutPeriods = {}
    /\ bestSchedule = Null
    /\ newSchedule = Null
    /\ bestScore = NegInfinity
    /\ iterations = 0
    /\ lastImprovement = 0
    /\ temperature = ROne
    /\ maxSeen = NegInfinity
    /\ workerCountArg = 0 /\ workerCount = 0 /\ workerIndex = 0 /\ workers = 0
    /\ runResults = <<>>
    /\ weekArg = 0 /\ dayArg = <<>> /\ verdict = "none"
    /\ periodArg = 0 /\ dateArg = 0 /\ consecutiveCount = 0
    /\ formTotalConflicts = NoConflicts
    /\ formPartialConflicts = NoConflicts
    /\ toggles = 0
    /\ isGenerating = FALSE /\ error = "null" /\ generatedSchedule = <<>>
    /\ clicks = 0

\* the form after an operation left the lists as in state
FormSet(state) ==
    /\ run = "ClassForm" /\ toggles < MaxToggles
    /\ formTotalConflicts' = state.total
    /\ formPartialConflicts' = state.partial
    /\ toggles' = toggles + 1
    /\ UNCHANGED <<parVars, valVars, periodArg, dateArg, consecutiveCount,
                   isGenerating, error, generatedSchedule, clicks, run,
                   preferences, classes, constraints, blackoutPeriods,
                   config, pc, heap, currentSchedule, bestSchedule,
                   newSchedule, bestScore, iterations, lastImprovement,
                   temperature, maxSeen>>

\* a click on a cell of the grid
TogglePeriod ==
    \E dayOfWeek \in DAYS, period \in PERIODS, type \in ConflictTypes :
        FormSet(togglePeriod(dayOfWeek, period, type))

\* a click on the header of a day
ToggleEntireDay ==
    \E dayOfWeek \in DAYS, type \in ConflictTypes :
        FormSet(toggleEntireDay(dayOfWeek, type))

\* a click on the header of a period
TogglePeriodAllDays ==
    \E period \in PERIODS, type \in ConflictTypes :
        FormSet(togglePeriodAllDays(period, type))

FormNext == TogglePeriod \/ ToggleEntireDay \/ TogglePeriodAllDays

FormSpec == FormInit /\ [][FormNext]_vars

\* ----------------------------------------------------- ScheduleGenerator
\* the number of clicks on Generate Schedule followed
MaxClicks == 2

\* the class lists handed to the component: the catalogues and an empty list
GeneratorClassLists == Catalogues \cup {<<>>}

GeneratorInit ==
    /\ run = "ScheduleGenerator"
    /\ preferences = [gradeProgression |-> "none"]
    /\ classes \in GeneratorClassLists
    /\ constraints \in ConstraintChoices(2)
    /\ blackoutPeriods \in BlackoutChoices
    /\ heap = <<>>
    /\ currentSchedule = Null
    /\ pc = "idle"
    /\ config = NoConfig
    /\ bestSchedule = Null
    /\ newSchedule = Null
    /\ bestScore = NegInfinity
    /\ iterations = 0
    /\ lastImprovement = 0
    /\ temperature = ROne
    /\ maxSeen = NegInfinity
    /\ workerCountArg = 0 /\ workerCount = 0 /\ workerIndex = 0 /\ workers = 0
    /\ runResults = <<>>
    /\ weekArg = 0 /\ dayArg = <<>> /\ verdict = "none"
    /\ UiIdle

\* what is left unchanged by the steps of the component
generatorFrame ==
    <<parVars, valVars, periodArg, dateArg, consecutiveCount,
      formTotalConflicts, formPartialConflicts, toggles, run, preferences,
      classes, constraints, blackoutPeriods, heap, currentSchedule,
      bestSchedule, newSchedule, bestScore, iterations, lastImprovement,
      temperature, maxSeen>>

\* ScheduleGenerator.tsx:34-51, 86-97: a click on the button, which is
\* disabled while isGenerating; the handler runs up to its return or up to
\* the setTimeout that defers the generation
handleGenerateSchedule ==
    /\ run = "ScheduleGenerator" /\ pc = "idle"
    /\ ~isGenerating
    /\ clicks < MaxClicks
    /\ clicks' = clicks + 1
    /\ isGenerating' = TRUE
    /\ IF Len(classes) = 0
       THEN /\ error' = "No classes available to schedule"
            /\ pc' = "idle"
       ELSE /\ error' = "null"
            /\ pc' = "timer"
    /\ UNCHANGED <<generatorFrame, config, generatedSchedule>>

\* ScheduleGenerator.tsx:52-61 and schedule.ts:131-157: the deferred
\* callback calls scheduleUtils.generateSchedule, which builds the
\* SimulatedAnnealingScheduler with its configuration and defers the run
GenerationTimer ==
    /\ run = "ScheduleGenerator" /\ pc = "timer"
    /\ config' = [initialTemperature |-> Rat(3000, 1),
                  coolingRate |-> Rat(99, 100),
                  minTemperature |-> Rat(1, 10),
                  iterationsPerTemp |-> 400,
                  maxRestarts |-> 10] @@ SimulatedAnnealingDefaults
    /\ pc' = "engine"
    /\ UNCHANGED <<generatorFrame, isGenerating, error, generatedSchedule,
                   clicks>>

\* schedule.ts:157-176 and ScheduleGenerator.tsx:62-85: engine.generateSchedule
\* runs; its schedule resolves the promise and is stored, its error rejects
\* the promise and is shown; finally isGenerating is reset
GenerationSettles ==
    /\ run = "ScheduleGenerator" /\ pc = "engine"
    /\ LET outcome == SchedulerOutcome(Promise("settled", <<>>))
       IN  IF outcome.status = "raised"
           THEN /\ error' = "Error: Failed to generate a valid schedule. Please try adjusting the constraints."
                /\ UNCHANGED generatedSchedule
           ELSE /\ generatedSchedule' = <<outcome.schedule>>
                /\ UNCHANGED error
    /\ isGenerating' = FALSE
    /\ pc' = "idle"
    /\ UNCHANGED <<generatorFrame, config, clicks>>

GeneratorNext ==
    \/ handleGenerateSchedule
    \/ GenerationTimer
    \/ GenerationSettles

GeneratorSpec == GeneratorInit /\ [][GeneratorNext]_vars

\* ------------------------------------------------------------------ claims
\* the aggregate score the running loop compares for the object at r
AggOf(h, r) ==
    IF run = "ScheduleEngine" THEN aggregateScore(h[r].score)
    ELSE ScheduleScore(h[r])

Engine == run = "ScheduleEngine"
Annealing == run = "SimulatedAnnealing"

\* a step that ran one pass of an annealing loop
IterationStep == pc = "loop" /\ iterations' = iterations + 1

OnTotalConflict(e) == hasTotalConflict(classes[e.id], e.date, e.period)

\* C1: in ScheduleEngine.generateSchedule, the initial solution, every
\* candidate of mutateSchedule and the returned schedule never hold a class
\* on a (date, period) of that class's own totalConflicts.
C1_NoTotalConflictPlacement ==
    Engine =>
        \A r \in DOMAIN heap : \A i \in Idx(heap[r].classes) :
            ~OnTotalConflict(heap[r].classes[i])

\* a returned schedule holds a class in period 2 of the date whose period 1
\* is a total conflict of that class
C1_Witness ==
    /\ Engine /\ pc = "done" /\ newSchedule # Null
    /\ \E i \in Idx(heap[bestSchedule].classes) :
          LET e == heap[bestSchedule].classes[i]
          IN  /\ e.period = 2
              /\ hasTotalConflict(classes[e.id], e.date, 1)
              /\ classes[e.id].totalConflicts = {<<e.date, 1>>}

\* C2: in every schedule returned by generateSchedule no two distinct
\* scheduled classes hold the same (date, period).
C2_NoSharedSlot ==
    (Engine /\ pc = "done") =>
        \A i, j \in Idx(heap[bestSchedule].classes) :
            (i # j) =>
                \/ heap[bestSchedule].classes[i].date #
                      heap[bestSchedule].classes[j].date
                \/ heap[bestSchedule].classes[i].period #
                      heap[bestSchedule].classes[j].period

\* C3: no date of the initial solution, of a candidate or of the returned
\* schedule holds more than maxClassesPerDay classes.
C3_DayCapRespected ==
    Engine =>
        \A r \in DOMAIN heap :
            \A d \in DOMAIN classesPerDay(heap[r].classes) :
                classesPerDay(heap[r].classes)[d] <= constraints.maxClassesPerDay

\* every day of the window is full in a candidate produced by a mutation
C3_Witness ==
    /\ Engine /\ pc = "loop" /\ newSchedule # Null
    /\ \A d \in Dates :
          classesPerDay(heap[newSchedule].classes)[d] =
              constraints.maxClassesPerDay

\* C4: no schedule returned by generateSchedule holds a class on a
\* (date, period) of the blackoutPeriods given to the scheduler.
C4_NoBlackoutPlacement ==
    (Engine /\ pc = "done") =>
        \A i \in Idx(heap[bestSchedule].classes) :
            <<heap[bestSchedule].classes[i].date,
              heap[bestSchedule].classes[i].period>> \notin blackoutPeriods

\* C5: the schedule returned by ScheduleEngine.generateSchedule scores at
\* least as high as the initial solution and as every schedule that was
\* the current schedule during the run.
C5_ReturnsBestSeen ==
    (Engine /\ pc = "done") =>
        RLeq(maxSeen, AggOf(heap, bestSchedule))

\* C6: in every iteration, a candidate scoring strictly above the best
\* schedule becomes the best schedule in that iteration.
C6_BetterCandidateBecomesBest ==
    [][(IterationStep /\
          Greater(AggOf(heap', newSchedule'), AggOf(heap, bestSchedule)))
        => bestSchedule' = newSchedule']_vars

\* the last candidate replaced a best schedule that an earlier iteration
\* had already set
C6_Witness ==
    /\ Engine /\ pc = "loop" /\ newSchedule # Null
    /\ bestSchedule = newSchedule
    /\ lastImprovement >= 1

\* C7: a mutation leaves its input untouched: the objects held as current
\* and best schedule before an iteration still have the same list of
\* entries and the same score after it.
C7_MutationLeavesInputUntouched ==
    [][IterationStep =>
          \A r \in {currentSchedule, bestSchedule} :
              r \in DOMAIN heap' => heap'[r] = heap[r]]_vars

\* a candidate differing from its input was rejected
C7_Witness ==
    /\ pc = "done" /\ newSchedule # Null
    /\ newSchedule \notin {currentSchedule, bestSchedule}
    /\ heap[newSchedule].classes # heap[currentSchedule].classes

ExitCondition ==
    IF Engine
    THEN \/ iterations >= MAX_ITERATIONS
         \/ iterations - lastImprovement >= maxIterationsWithoutImprovement
    ELSE \/ RLeq(temperature, config.minTemperature)
         \/ iterations >= config.maxIterations

\* the terminal condition with all three disjuncts; generateSchedule has no
\* temperature floor; the stall limit of optimize is the canonical one
TerminalCondition ==
    \/ Annealing /\ RLeq(temperature, config.minTemperature)
    \/ iterations >= (IF Engine THEN MAX_ITERATIONS ELSE config.maxIterations)
    \/ iterations - lastImprovement >= maxIterationsWithoutImprovement

C10_CoolsEveryIterationsPerTemp ==
    [][(Annealing /\ pc = "loop" /\ temperature' # temperature)
        => (iterations' % config.iterationsPerTemp = 0)]_vars

\* ----------------------------------------------------- claims C11 to C20
Parallel == run = "ParallelScheduler"

\* C11: a run of ParallelScheduler.generateSchedule that throws does not
\* stop the remaining runs: an error reaches the caller only after every
\* one of the min(workerCount, 8) runs was executed and failed.
C11_FailedRunsAreIsolated ==
    (Parallel /\ pc = "raised") =>
        /\ workers = workerCount
        /\ runResults = <<>>

\* C12: when its runs are over, ParallelScheduler.generateSchedule returns
\* the schedule of one of its runs whose comparison score is at least that
\* of every other run, the earliest of the runs with that score.
C12_ReturnsBestRun ==
    (Parallel /\ pc = "done") =>
        /\ bestSchedule \in DOMAIN heap
        /\ \E k \in 1..Len(runResults) :
              /\ runResults[k].schedule = heap[bestSchedule]
              /\ \A j \in 1..Len(runResults) :
                    /\ RLeq(runResults[j].score, runResults[k].score)
                    /\ j < k => RLess(runResults[j].score, runResults[k].score)

\* the configuration the claim gives run i
ClaimedWorkerConfig(i) ==
    [initialTemperature |-> Rat(1000 + (200 * i), 1),
     coolingRate |-> Rat(995 - i, 1000),
     minTemperature |-> Rat(10 + i, 100),
     iterationsPerTemp |-> 300 + (50 * i)]

C14_SharedDataUnchanged ==
    [][classes' = classes /\ constraints' = constraints]_vars

\* generateSchedule returned after building a schedule of a catalogue of
\* several classes and mutating it
C14_Witness ==
    /\ Engine /\ pc = "done" /\ Len(classes) > 1
    /\ newSchedule # Null
    /\ iterations >= 2

\* C15: SimulatedAnnealingScheduler.generateSchedule raises an error
\* exactly when the schedule optimize came to holds no class, and returns
\* that schedule otherwise.
C15_ErrorIffNothingScheduled ==
    (Annealing /\ pc \in {"raised", "returned"}) =>
        (pc = "raised" <=> Len(heap[bestSchedule].classes) = 0)

\* C16: ScheduleEngine.generateSchedule raises no error when classes have
\* no conflict-free slot, also when no class at all can be placed.
C16_NoErrorWhenNothingFits ==
    Engine => pc # "threw"

ValidConstraints ==
    /\ validateMaxPeriodsPerDay(constraints.maxPeriodsPerDay)
    /\ validateConsecutivePeriods(constraints.consecutivePeriods)

\* C17: with invalid constraint values the schedule engine fails at
\* construction: no initial solution is built and no iteration runs.
C17_InvalidConstraintsRejected ==
    ((Engine \/ Annealing \/ Parallel) /\ ~ValidConstraints) => pc = "start"

\* C18: validateMaxPeriodsPerWeek(w, d) accepts exactly when 1 <= w <= 40
\* and, when d is supplied, w >= 5 * d.
C18_AcceptsExactly ==
    verdict # "none" =>
        (verdict = "accepted" <=>
            /\ 1 <= weekArg /\ weekArg <= 40
            /\ dayArg # <<>> => weekArg >= 5 * dayArg[1])

\* a weekly limit of 25 was rejected for a daily limit of 6
C18_Witness ==
    /\ verdict = "rejected"
    /\ weekArg = 25
    /\ dayArg = <<6>>

\* C19: a maxPeriodsPerWeek is accepted only if it is at most
\* maxPeriodsPerDay * 5 and at most 40.
C19_AcceptsOnlyUpToFiveDays ==
    (verdict = "accepted" /\ dayArg # <<>>
        /\ validateMaxPeriodsPerDay(dayArg[1])) =>
        /\ weekArg <= dayArg[1] * 5
        /\ weekArg <= 40

\* the entries of list cl on date d that belong to catalogue classes
\* before position k
PlacedBefore(cl, k, d) ==
    {j \in Idx(cl) : cl[j].date = d /\ \E m \in 1..(k - 1) : classes[m].id = cl[j].id}

Scored == run = "calculateScore" /\ pc = "done"

\* the entries of cl that sit on a partial conflict of their own class
OnPartialConflict(cl) ==
    {i \in Idx(cl) : <<cl[i].date, cl[i].period>> \in
                        classes[cl[i].id].partialConflicts}

\* C21: partialConflictPenalty is the number of scheduled classes on one of
\* their own partialConflicts slots divided by the number of scheduled
\* classes, hence above 0 when one class sits on such a slot.
C21_PartialConflictPenalty ==
    (Scored /\ Len(heap[1].classes) > 0) =>
        heap[1].score.partialConflictPenalty =
            Rat(Cardinality(OnPartialConflict(heap[1].classes)),
                Len(heap[1].classes))

\* the periods of date d that hold a class of cl
Occupied(cl, d) == {cl[i].period : i \in {j \in Idx(cl) : cl[j].date = d}}

\* a date of cl holds more classes than maxPeriodsPerDay
BreaksMaxPerDay(cl) ==
    \E d \in Dates : classesPerDay(cl)[d] > constraints.maxPeriodsPerDay

\* a date of cl has more than consecutivePeriods.maximum adjacent occupied
\* periods
BreaksConsecutive(cl) ==
    \E d \in Dates : \E p \in Occupied(cl, d) :
        \A q \in p..(p + constraints.consecutivePeriods.maximum) :
            q \in Occupied(cl, d)

\* C22: constraintViolations is above 0 for a scored schedule with more
\* classes on a day than maxPeriodsPerDay or with a run of adjacent occupied
\* periods longer than consecutivePeriods.maximum.
C22_LimitBreachesCounted ==
    (Scored /\ (BreaksMaxPerDay(heap[1].classes)
                  \/ BreaksConsecutive(heap[1].classes))) =>
        heap[1].score.constraintViolations > 0

UsedDays(cl) == {cl[i].date : i \in Idx(cl)}

GroupsOn(cl, d) ==
    {classes[cl[i].id].gradeGroup : i \in {j \in Idx(cl) : cl[j].date = d}}

\* C23: gradeGroupCohesion is the average over the days that hold classes
\* of 1 for a day with one grade group and 1/2 for a day with two.
C23_CohesionPerDay ==
    Scored =>
        LET days == UsedDays(heap[1].classes)
            per == [d \in days |->
                      Rat(1, Cardinality(GroupsOn(heap[1].classes, d)))]
        IN  heap[1].score.gradeGroupCohesion =
                RDivInt(SumRat(per, days), Cardinality(days))

\* C24: distributionQuality is 1 when every day that holds classes holds the
\* same number of them and below 1 when the daily counts differ (stated for
\* the schedules that keep every day within maxClassesPerDay).
C24_EvenDistributionScoresOne ==
    (Scored /\ \A d \in UsedDays(heap[1].classes) :
                  classesPerDay(heap[1].classes)[d] <= constraints.maxClassesPerDay) =>
        LET cl == heap[1].classes
            even == \A d, e \in UsedDays(cl) :
                        classesPerDay(cl)[d] = classesPerDay(cl)[e]
        IN  IF even THEN heap[1].score.distributionQuality = ROne
            ELSE RLess(heap[1].score.distributionQuality, ROne)

\* C25: every schedule reachable inside ScheduleEngine.generateSchedule,
\* with maxClassesPerDay >= 1, has 0 <= distributionQuality <= 1.
C25_DistributionQualityInUnitRange ==
    (Engine /\ constraints.maxClassesPerDay >= 1) =>
        \A r \in DOMAIN heap :
            /\ RLeq(RZero, heap[r].score.distributionQuality)
            /\ RLeq(heap[r].score.distributionQuality, ROne)

\* a mutation produced a schedule with every used day at the cap of 2
\* classes, where distributionQuality reaches 1
C25_Witness ==
    /\ Engine /\ pc = "loop" /\ newSchedule # Null
    /\ constraints.maxClassesPerDay = 2
    /\ Len(heap[newSchedule].classes) >= 2
    /\ heap[newSchedule].score.distributionQuality = ROne

\* C26: with the gradeProgression preference none, the gradeProgression
\* component of a score is 0 and adds nothing to the aggregate score.
C26_NoProgressionWhenNone ==
    (Scored /\ preferences.gradeProgression = "none") =>
        /\ heap[1].score.gradeProgression = RZero
        /\ aggregateScore(heap[1].score) =
              aggregateScore([heap[1].score EXCEPT !.gradeProgression = RZero])

\* the classes of date d ordered by period have grade levels that never
\* step against the requested direction
MonotonicDay(cl, d, direction) ==
    LET dc == SortByPeriod(SelectSeq(cl, LAMBDA e : e.date = d), 1)
    IN  \A i \in 1..(Len(dc) - 1) :
            IF direction = "low-to-high"
            THEN classes[dc[i].id].gradeLevel <= classes[dc[i + 1].id].gradeLevel
            ELSE classes[dc[i].id].gradeLevel >= classes[dc[i + 1].id].gradeLevel

\* C27: gradeProgression is 1 for a schedule whose classes, on every day and
\* ordered by period, have grade levels monotonic in the requested
\* direction, over any number of days (stated for the schedules with a day
\* of two classes or more).
C27_MonotonicDaysScoreOne ==
    (Scored /\ preferences.gradeProgression # "none"
        /\ (\E d \in UsedDays(heap[1].classes) :
              classesPerDay(heap[1].classes)[d] >= 2)
        /\ \A d \in UsedDays(heap[1].classes) :
              MonotonicDay(heap[1].classes, d, preferences.gradeProgression)) =>
        heap[1].score.gradeProgression = ROne

\* the ids of the entries of cl are pairwise distinct
DistinctIds(cl) == \A i, j \in Idx(cl) : cl[i].id = cl[j].id => i = j

C29_OneEntryPerIdSurvives ==
    run = "Schedule" => DistinctIds(heap[1].classes)

\* C30: getUnscheduledClasses() returns exactly the classes of the
\* catalogue whose ids are not scheduled.
C30_UnscheduledIsCatalogueMinusScheduled ==
    run = "Schedule" =>
        LET result == getUnscheduledClasses(heap[1])
        IN  {result[i].id : i \in Idx(result)} =
                {classes[k].id : k \in 1..Len(classes)} \
                    {heap[1].classes[i].id : i \in Idx(heap[1].classes)}

\* ----------------------------------------------------- claims C31 to C40
\* C31: the schedule returned by ParallelScheduler.generateSchedule carries
\* a startDate equal to the start date given at construction (date 0) and
\* constraints equal to the constraints given at construction.
C31_ReturnedScheduleEchoesInputs ==
    (Parallel /\ pc = "done") =>
        /\ bestSchedule \in DOMAIN heap
        /\ {"startDate", "constraints"} \subseteq DOMAIN heap[bestSchedule]
        /\ heap[bestSchedule].startDate = 0
        /\ heap[bestSchedule].constraints = constraints

\* the weekday of the start date of the tests, 2024-01-01: a Monday
StartWeekday == 1
\* the calendar week (Sunday to Saturday) a date falls in
WeekOf(date) == (date + StartWeekday) \div 7
\* the number of classes a schedule holds in one calendar week
ClassesInWeek(cl, w) == Cardinality({i \in Idx(cl) : WeekOf(cl[i].date) = w})

\* C32: in any schedule returned by generateSchedule, the number of classes
\* scheduled within any single calendar week does not exceed
\* constraints.maxPeriodsPerWeek.
C32_WeekCapRespected ==
    (Engine /\ pc = "done") =>
        \A w \in {WeekOf(d) : d \in Dates} :
            ClassesInWeek(heap[bestSchedule].classes, w)
                <= constraints.maxPeriodsPerWeek

\* C33: when the initial solution schedules at least one class, the loop of
\* ScheduleEngine.generateSchedule always terminates: it performs at most
\* MAX_ITERATIONS iterations and exits as soon as
\* maxIterationsWithoutImprovement iterations have passed without the best
\* schedule being replaced.  Every step taken in the loop returns or counts
\* one more iteration, an iteration is counted only below both limits, the
\* count never passes MAX_ITERATIONS, and a mutation always yields a schedule.
C33_LoopTerminates ==
    /\ [](Engine => iterations <= MAX_ITERATIONS)
    /\ []((Engine /\ pc = "loop" /\ Len(heap[currentSchedule].classes) > 0) =>
             \A i \in Idx(heap[currentSchedule].classes) :
                 mutateSchedule(heap[currentSchedule], i) # {})
    /\ [][(Engine /\ pc = "loop" /\ Len(heap[currentSchedule].classes) > 0) =>
             \/ pc' = "done" /\ iterations' = iterations
             \/ /\ pc' = "loop" /\ iterations' = iterations + 1
                /\ iterations < MAX_ITERATIONS
                /\ iterations - lastImprovement
                      < maxIterationsWithoutImprovement]_vars

\* generateSchedule returned on the stall limit, before MAX_ITERATIONS, with
\* a schedule that holds a class
C33_Witness ==
    /\ Engine /\ pc = "done"
    /\ Len(heap[bestSchedule].classes) > 0
    /\ iterations < MAX_ITERATIONS
    /\ iterations - lastImprovement >= maxIterationsWithoutImprovement

\* the ids of the classes a schedule holds
ScheduledIds(cl) == {cl[i].id : i \in Idx(cl)}

\* C34: ScheduleEngine.mutateSchedule never changes which classes are
\* scheduled: every candidate, current and best schedule of a run has the
\* same set of scheduled class ids as the initial solution, so a class the
\* initial-solution builder left out is never scheduled later and
\* totalLength is constant over the whole run.
C34_ScheduledSetIsFixed ==
    [][(Engine /\ pc = "loop") =>
          \A r \in DOMAIN heap, q \in DOMAIN heap' :
              /\ ScheduledIds(heap'[q].classes) = ScheduledIds(heap[r].classes)
              /\ heap'[q].score.totalLength = heap[r].score.totalLength]_vars

\* generateSchedule returned after moving classes of a schedule that holds
\* some but not all classes of the catalogue
C34_Witness ==
    /\ Engine /\ pc = "done" /\ iterations >= 2
    /\ Len(heap[bestSchedule].classes) > 0
    /\ Len(heap[bestSchedule].classes) < Len(classes)
    /\ bestSchedule # 1

\* class k of the catalogue has, at its turn, a date of the window below
\* maxClassesPerDay with a period that is not one of its total conflicts
HasOpenSlot(cl, k) ==
    \E d \in Dates, p \in 1..constraints.maxPeriodsPerDay :
        /\ Cardinality(PlacedBefore(cl, k, d)) < constraints.maxClassesPerDay
        /\ <<d, p>> \notin classes[k].totalConflicts

\* C35: generateInitialSolution schedules a class if and only if, at the
\* moment that class is processed, some date of the window holds fewer than
\* maxClassesPerDay classes and has a period in 1..maxPeriodsPerDay that is
\* not one of the class's total conflicts; the random rejection of slots
\* never leaves such a class unscheduled.
C35_ScheduledIffOpenSlot ==
    (Engine /\ pc = "loop" /\ iterations = 0) =>
        \A k \in 1..Len(classes) :
            classes[k].id \in ScheduledIds(heap[currentSchedule].classes)
                <=> HasOpenSlot(heap[currentSchedule].classes, k)

\* an initial solution that holds one class and leaves out another, which
\* has conflict-free slots, but only on dates that were full at its turn
C35_Witness ==
    /\ Engine /\ pc = "loop" /\ iterations = 0
    /\ \E k, m \in 1..Len(classes) :
          /\ classes[m].id \in ScheduledIds(heap[currentSchedule].classes)
          /\ classes[k].id \notin ScheduledIds(heap[currentSchedule].classes)
          /\ \E s \in Dates \X (1..constraints.maxPeriodsPerDay) :
                s \notin classes[k].totalConflicts

\* the periods mutateSchedule may give entry i of list cl, as a set
AvailableTo(cl, i) ==
    LET ps == getAvailablePeriods(cl[i].date, classes[cl[i].id], Others(cl, i))
    IN  {ps[j] : j \in 1..Len(ps)}

\* the partial-conflict count of entry i of list cl at period p
ConflictsAt(cl, i, p) ==
    checkClassConflicts(cl[i].date, p, classes[cl[i].id]).partialConflictCount

\* C36: SimulatedAnnealing.mutateSchedule moves the chosen class only to
\* one of the (at most three) available periods with the fewest partial
\* conflicts: no available period outside those considered has fewer
\* partial conflicts than a considered one; nothing else of the schedule
\* changes, and when no period is available the returned schedule has the
\* same placements as the input.
C36_MovesToFewestConflicts ==
    (run = "mutateSchedule" /\ pc = "done") =>
        LET in == heap[1].classes
            out == heap[2].classes
        IN  /\ Len(out) = Len(in)
            /\ \E i \in Idx(in) :
                  /\ \A j \in Idx(in) \ {i} : out[j] = in[j]
                  /\ out[i].id = in[i].id /\ out[i].date = in[i].date
                  /\ IF AvailableTo(in, i) = {} THEN out[i] = in[i]
                     ELSE \E T \in SUBSET AvailableTo(in, i) :
                            /\ Cardinality(T) =
                                  Min(3, Cardinality(AvailableTo(in, i)))
                            /\ out[i].period \in T
                            /\ \A p \in AvailableTo(in, i) \ T, t \in T :
                                  ConflictsAt(in, i, p) >= ConflictsAt(in, i, t)

\* the class of the mutation test, alone on period 1 of the start date with
\* four periods available, was moved to period 4
C36_Witness ==
    /\ run = "mutateSchedule" /\ pc = "done"
    /\ Len(classes) = 1
    /\ heap[1].classes = <<ScheduledClass(classes[1], <<0, 1>>)>>
    /\ Cardinality(AvailableTo(heap[1].classes, 1)) = MutatePeriods
    /\ heap[2].classes[1].period = 4

\* the periods held by some scheduled class of list cl on date d
HeldOn(cl, d) == {cl[i].period : i \in {j \in Idx(cl) : cl[j].date = d}}

\* the blocks lo..hi of consecutive period numbers that contain p and in
\* which every period other than p is held on date d
BlocksAround(cl, d, p) ==
    {b \in (0..p) \X (p..(CountPeriods + 1)) :
        /\ b[1] >= 1 /\ b[2] <= CountPeriods
        /\ \A q \in (b[1]..b[2]) \ {p} : q \in HeldOn(cl, d)}

\* C37: countConsecutivePeriods(period, date, scheduledClasses) returns the
\* length of the maximal block of consecutive period numbers that contains
\* period and in which every period other than period itself is held by a
\* scheduled class on that date; the result is at least 1 and the classes
\* on other dates do not affect it.
C37_CountsMaximalBlock ==
    (run = "countConsecutivePeriods" /\ pc = "done") =>
        LET cl == heap[1].classes
            blocks == BlocksAround(cl, dateArg, periodArg)
        IN  /\ consecutiveCount >= 1
            /\ \E b \in blocks :
                  /\ consecutiveCount = b[2] - b[1] + 1
                  /\ \A c \in blocks : c[2] - c[1] <= b[2] - b[1]

\* period 3 was counted on a date that holds periods 2 and 4, with a class
\* on another date: a block of three that reaches both ways
C37_Witness ==
    /\ run = "countConsecutivePeriods" /\ pc = "done"
    /\ periodArg = 3
    /\ HeldOn(heap[1].classes, dateArg) = {2, 4}
    /\ \E i \in Idx(heap[1].classes) : heap[1].classes[i].date # dateArg
    /\ consecutiveCount = 3

\* C38: starting from a class form with no conflicts, after any sequence of
\* togglePeriod, toggleEntireDay and togglePeriodAllDays operations (of
\* either conflict type) no (day, period) pair is in both the class's
\* totalConflicts and its partialConflicts.
C38_ConflictListsDisjoint ==
    run = "ClassForm" =>
        \A d \in DAYS : formTotalConflicts[d] \cap formPartialConflicts[d] = {}

\* after three operations a day is a total conflict in all its periods
\* while a period is a partial conflict on another day
C38_Witness ==
    /\ run = "ClassForm" /\ toggles = MaxToggles
    /\ \E d \in DAYS : formTotalConflicts[d] = PERIODS
    /\ \E d \in DAYS : formPartialConflicts[d] # {}

\* C39: after every click on Generate Schedule, the ScheduleGenerator's
\* isGenerating flag returns to false, so that the button is usable again,
\* on every path (successful generation, failed generation, a request made
\* with an empty class list): once the handler has returned and no deferred
\* step of the request is left to run, isGenerating is false.
C39_IsGeneratingIsReset ==
    (run = "ScheduleGenerator" /\ pc = "idle") => ~isGenerating

\* C40: whenever ParallelScheduler.generateSchedule completes without raising
\* an error, the value it returns is a schedule produced by one of its runs
\* and never null, for every workerCount (0 included) and every class list.
C40_NeverReturnsNull ==
    (Parallel /\ pc = "done") =>
        /\ bestSchedule # Null
        /\ \E k \in 1..Len(runResults) :
              runResults[k].schedule = heap[bestSchedule]

====
